---- MODULE Spec2Model ----
(***************************************************************************)
(* Model of jano-token-verifier: createVerifyTokenMiddleware(options) and  *)
(* the Express middleware verifyToken(req, resp, next) it returns          *)
(* (src/src/verifyToken.js).                                               *)
(*                                                                         *)
(* Text is a sequence of characters; a compact JWT serialization (which    *)
(* contains no space) is one opaque symbol of such a sequence.  A JS value *)
(* that may be null/undefined is a record [kind, str].  A JS object with   *)
(* optional properties is a function whose DOMAIN is the properties set.   *)
(***************************************************************************)
EXTENDS Integers, Sequences, FiniteSets, TLC

VARIABLES
    pc,            \* "init" | "threw" | "ready" | "request" | "handled"
    args,          \* argument list given to createVerifyTokenMiddleware
    handler,       \* <<>> or <<closure>>: what the factory returned
    req,           \* the request object: [headers, props]
    resp,          \* responses written: sequence of [status, body]
    nextCalls,     \* one entry per next() call: req.props at the call
    extractCalls,  \* number of extractToken(req) calls
    verifyCalls,   \* one entry per jwt.verify call: [token, key]
    log,           \* logger entries: [level, msg, err]
    raised         \* <<>> or <<err>>: exception that left verifyToken

vars == <<pc, args, handler, req, resp, nextCalls, extractCalls, verifyCalls, log, raised>>

reqVars == <<req, resp, nextCalls, extractCalls, verifyCalls, log, raised>>

(***************************************************************************)
(* Bounds                                                                  *)
(***************************************************************************)
MaxTail == 3

(***************************************************************************)
(* JS values and objects                                                   *)
(***************************************************************************)
EmptyObj == [k \in {} |-> k]

null == [kind |-> "null", str |-> <<>>]

undefined == [kind |-> "undefined", str |-> <<>>]

Str(s) == [kind |-> "string", str |-> s]

\* !v for a value that is null, undefined or a string
Falsy(v) == v.kind # "string" \/ v.str = <<>>

Has(o, k) == k \in DOMAIN o

(***************************************************************************)
(* Text                                                                    *)
(***************************************************************************)
Bearer == <<"B", "e", "a", "r", "e", "r">>

bearerLower == <<"b", "e", "a", "r", "e", "r">>

Basic == <<"B", "a", "s", "i", "c">>

\* String.prototype.split(sep) for a one-character separator
RECURSIVE split(_, _)
split(s, sep) ==
    IF \A i \in 1..Len(s) : s[i] # sep
    THEN <<s>>
    ELSE LET i == CHOOSE n \in 1..Len(s) :
                      s[n] = sep /\ \A j \in 1..(n - 1) : s[j] # sep
         IN  <<SubSeq(s, 1, i - 1)>> \o split(SubSeq(s, i + 1, Len(s)), sep)

(***************************************************************************)
(* Tokens in circulation and the verification primitive                    *)
(***************************************************************************)
Issued ==
    [jwtA    |-> [alg |-> "HS256", key |-> "s1", notBefore |-> FALSE,
                  expired |-> FALSE, payload |-> [sub |-> "u1", iat |-> 1]],
     jwtB    |-> [alg |-> "HS256", key |-> "s1", notBefore |-> FALSE,
                  expired |-> TRUE, payload |-> [sub |-> "u2", iat |-> 1]],
     jwtNbf  |-> [alg |-> "HS256", key |-> "s1", notBefore |-> TRUE,
                  expired |-> FALSE, payload |-> [sub |-> "u3", iat |-> 1]],
     jwtNone |-> [alg |-> "none", key |-> "", notBefore |-> FALSE,
                  expired |-> FALSE, payload |-> [sub |-> "u4", iat |-> 1]]]

Error(name, message) == [name |-> name, message |-> message]

Returned(v) == [threw |-> FALSE, value |-> v, err |-> Error("", "")]

Thrown(e) == [threw |-> TRUE, value |-> EmptyObj, err |-> e]

\* jsonwebtoken's verify(token, secretOrPublicKey), synchronous form
jwt_verify(token, secretOrPublicKey) ==
    IF Len(token) # 1 \/ token[1] \notin DOMAIN Issued
    THEN Thrown(Error("JsonWebTokenError", "jwt malformed"))
    ELSE LET j == Issued[token[1]]
         IN  IF j.alg = "none"
             THEN Thrown(Error("JsonWebTokenError", "jwt signature is required"))
             ELSE IF j.key # secretOrPublicKey
             THEN Thrown(Error("JsonWebTokenError", "invalid signature"))
             ELSE IF j.notBefore
             THEN Thrown(Error("NotBeforeError", "jwt not active"))
             ELSE IF j.expired
             THEN Thrown(Error("TokenExpiredError", "jwt expired"))
             ELSE Returned(j.payload)

(***************************************************************************)
(* createVerifyTokenMiddleware(options)                                    *)
(***************************************************************************)
MessageKeys == {"noToken", "malformedToken", "expiredToken", "invalidToken"}

defaultMessages ==
    [noToken        |-> "No authorization header provided",
     malformedToken |-> "Malformed authorization header",
     expiredToken   |-> "Session expired. Please login",
     invalidToken   |-> "Error validating token credentials. Please relogin"]

\* a guard that only notices an undefined secretKey
secretKeyUndefinedOnly(a) ==
    \/ a = <<>>
    \/ ~Has(a[1], "secretKey")

\* !options || !options.secretKey
secretKeyMissing(a) ==
    \/ a = <<>>
    \/ ~Has(a[1], "secretKey")
    \/ a[1].secretKey = ""

\* a flag that defaults to true when the option is not given
disableTokenVerificationDefaultOn(options) ==
    ~Has(options, "disableTokenVerification") \/ options.disableTokenVerification

\* options.disableTokenVerification || false
disableTokenVerification(options) ==
    Has(options, "disableTokenVerification") /\ options.disableTokenVerification

\* options.userProperty || 'user'
userProperty(options) ==
    IF Has(options, "userProperty") /\ options.userProperty # ""
    THEN options.userProperty
    ELSE "user"

\* options.messages || { defaults }: the given object replaces the defaults
messagesReplace(options) ==
    IF Has(options, "messages")
    THEN options.messages @@ [k \in MessageKeys |-> "undefined"]
    ELSE defaultMessages

\* { noToken: ..., malformedToken: ..., ..., ...options.messages }
messages(options) ==
    IF Has(options, "messages")
    THEN options.messages @@ defaultMessages
    ELSE defaultMessages

\* an extractor that does not look at the scheme
defaultExtractTokenAnyScheme(r) ==
    IF ~Has(r.headers, "authorization") \/ r.headers["authorization"] = <<>>
    THEN null
    ELSE LET parts == split(r.headers["authorization"], " ")
         IN  IF Len(parts) >= 2 THEN Str(parts[2]) ELSE undefined

\* an extractor that returns everything after the first space
defaultExtractTokenRemainder(r) ==
    IF ~Has(r.headers, "authorization") \/ r.headers["authorization"] = <<>>
    THEN null
    ELSE LET h      == r.headers["authorization"]
             parts  == split(h, " ")
             bearer == parts[1]
             token  == IF Len(parts) >= 2
                       THEN Str(SubSeq(h, Len(bearer) + 2, Len(h)))
                       ELSE undefined
         IN  IF bearer = Bearer THEN token ELSE null

\* (req) => { ... authHeader.split(' ') ... }
defaultExtractToken(r) ==
    IF ~Has(r.headers, "authorization") \/ r.headers["authorization"] = <<>>
    THEN null
    ELSE LET parts  == split(r.headers["authorization"], " ")
             bearer == parts[1]
             token  == IF Len(parts) >= 2 THEN Str(parts[2]) ELSE undefined
         IN  IF bearer = Bearer THEN token ELSE null

\* (req) => req.headers['x-custom-token']
customExtractToken(r) ==
    IF Has(r.headers, "x-custom-token")
    THEN Str(r.headers["x-custom-token"])
    ELSE undefined

\* options.extractToken || defaultExtractToken, applied to a request
extractToken(closure, r) ==
    IF closure.extractToken = "defaultExtractToken"
    THEN defaultExtractToken(r)
    ELSE customExtractToken(r)

\* the variables the returned verifyToken closes over
Closure(options) ==
    [secretKey                |-> options.secretKey,
     disableTokenVerification |-> disableTokenVerification(options),
     userProperty             |-> userProperty(options),
     messages                 |-> messages(options),
     extractToken             |-> IF Has(options, "extractToken")
                                  THEN options.extractToken
                                  ELSE "defaultExtractToken"]

(***************************************************************************)
(* verifyToken(req, resp, next)                                            *)
(***************************************************************************)
\* the status of the rejection of a token that failed verification
failureStatus == 401

\* the status of the rejection of a request without a token
noTokenStatus == 401

\* resp.status(code).json({ message })
json(code, message) == [status |-> code, body |-> [message |-> message]]

\* a catch block that answers with the error's own text
catchMessageLeak(err, msgs) == err.message

\* a catch block that takes every error but JsonWebTokenError for an expiry
catchMessageByJwtError(err, msgs) ==
    IF err.name = "JsonWebTokenError" THEN msgs.invalidToken ELSE msgs.expiredToken

\* err.name === 'TokenExpiredError' ? messages.expiredToken : messages.invalidToken
catchMessage(err, msgs) ==
    IF err.name = "TokenExpiredError" THEN msgs.expiredToken ELSE msgs.invalidToken

LogEntry(level, msg, errs) == [level |-> level, msg |-> msg, err |-> errs]

\* the catch block of verifyToken
Catch(closure, err) ==
    /\ log' = Append(log, LogEntry("warn", "Error decoding/verifying token", <<err>>))
    /\ resp' = Append(resp, json(failureStatus, catchMessage(err, closure.messages)))
    /\ raised' = raised

\* what verifyToken does; nb is <<>> when next() returns, <<err>> when it throws
verifyTokenBody(closure, nb) ==
    IF closure.disableTokenVerification
    THEN /\ log' = Append(log, LogEntry("info",
                       "Token verification is disabled. Skipping verification.", <<>>))
         /\ nextCalls' = Append(nextCalls, req.props)
         /\ raised' = nb
         /\ UNCHANGED <<req, resp, extractCalls, verifyCalls>>
    ELSE LET token == extractToken(closure, req)
         IN  /\ extractCalls' = extractCalls + 1
             /\ IF Falsy(token)
                THEN /\ log' = Append(log, LogEntry("warn", closure.messages.noToken, <<>>))
                     /\ resp' = Append(resp, json(noTokenStatus, closure.messages.noToken))
                     /\ UNCHANGED <<req, nextCalls, verifyCalls, raised>>
                ELSE LET r == jwt_verify(token.str, closure.secretKey)
                         augmented == [req EXCEPT !.props =
                                          (closure.userProperty :> r.value) @@ @]
                     IN  /\ verifyCalls' = Append(verifyCalls,
                                [token |-> token.str, key |-> closure.secretKey])
                         /\ IF r.threw
                            THEN /\ Catch(closure, r.err)
                                 /\ UNCHANGED <<req, nextCalls>>
                            ELSE /\ req' = augmented
                                 /\ nextCalls' = Append(nextCalls, augmented.props)
                                 /\ IF nb = <<>>
                                    THEN UNCHANGED <<resp, log, raised>>
                                    ELSE Catch(closure, nb[1])

(***************************************************************************)
(* Inputs                                                                  *)
(***************************************************************************)
Field(name, values) == {EmptyObj} \cup {name :> v : v \in values}

customMessages ==
    [noToken        |-> "Please provide an authentication token",
     malformedToken |-> "Invalid token format",
     expiredToken   |-> "Your session has expired",
     invalidToken   |-> "Invalid credentials"]

MessageOverrides == {[k \in S |-> customMessages[k]] : S \in SUBSET MessageKeys}

\* the messages object of the README's usage example
readmeMessages == [k \in {"noToken", "expiredToken"} |-> customMessages[k]]

OptionsSet ==
    {a @@ b @@ c @@ d @@ e :
        a \in Field("secretKey", {"", "s1", "s2"}),
        b \in Field("disableTokenVerification", BOOLEAN),
        c \in Field("userProperty", {"currentUser"}),
        d \in Field("messages", {readmeMessages}),
        e \in Field("extractToken", {"customExtractToken"})}

ArgsSet == {<<>>} \cup {<<o>> : o \in OptionsSet}

MessagesOptionsSet ==
    {a @@ d @@ e :
        a \in Field("secretKey", {"s1"}),
        d \in Field("messages", MessageOverrides),
        e \in Field("extractToken", {"customExtractToken"})}

MessagesArgsSet == {<<o>> : o \in MessagesOptionsSet}

Schemes == {<<>>, Bearer, Bearer \o <<" ">>, Bearer \o <<"\t">>,
            bearerLower \o <<" ">>, Basic \o <<" ">>}

TailAlphabet == {" ", "x", "jwtA", "jwtB"}

RECURSIVE Tails(_)
Tails(n) ==
    IF n = 0 THEN {<<>>}
    ELSE LET shorter == Tails(n - 1)
         IN  shorter \cup {Append(t, c) : t \in shorter, c \in TailAlphabet}

AuthorizationValues == {s \o t : s \in Schemes, t \in Tails(MaxTail)}

CustomTokenValues == {<<>>, <<"jwtA">>, <<"jwtB">>, <<"jwtNbf">>, <<"jwtNone">>}

\* requests with an Authorization header, with an x-custom-token header,
\* with both, and with neither
HeadersSet ==
    {"authorization" :> a : a \in AuthorizationValues}
        \cup {a @@ ("x-custom-token" :> c) :
                 a \in Field("authorization", {Bearer \o <<" ", "jwtA">>}),
                 c \in CustomTokenValues}
        \cup {EmptyObj}

MessagesHeadersSet ==
    {h \in HeadersSet :
        Has(h, "authorization") =>
            h["authorization"] \in {Bearer \o <<" ">> \o t : t \in Tails(1)}}

DownstreamErrors == {Error("Error", "downstream failure"),
                     Error("TokenExpiredError", "downstream jwt expired")}

NextBehaviours == {<<>>} \cup {<<e>> : e \in DownstreamErrors}

NoRequest == [headers |-> EmptyObj, props |-> EmptyObj]

(***************************************************************************)
(* State machine                                                           *)
(***************************************************************************)
Init ==
    /\ pc = "init"
    /\ args = <<>>
    /\ handler = <<>>
    /\ req = NoRequest
    /\ resp = <<>>
    /\ nextCalls = <<>>
    /\ extractCalls = 0
    /\ verifyCalls = <<>>
    /\ log = <<>>
    /\ raised = <<>>

\* the application calls the factory
createVerifyTokenMiddleware(a) ==
    /\ pc = "init"
    /\ args' = a
    /\ IF secretKeyMissing(a)
       THEN pc' = "threw" /\ handler' = <<>>
       ELSE pc' = "ready" /\ handler' = <<Closure(a[1])>>
    /\ UNCHANGED reqVars

\* the server hands a fresh request and response to the middleware
Receive(h) ==
    /\ pc = "ready"
    /\ pc' = "request"
    /\ req' = [headers |-> h, props |-> EmptyObj]
    /\ UNCHANGED <<args, handler, resp, nextCalls, extractCalls, verifyCalls, log, raised>>

\* the middleware runs on the request
verifyToken(nb) ==
    /\ pc = "request"
    /\ pc' = "handled"
    /\ verifyTokenBody(handler[1], nb)
    /\ UNCHANGED <<args, handler>>

\* the request's life ends
Finish ==
    /\ pc = "handled"
    /\ pc' = "ready"
    /\ req' = NoRequest
    /\ resp' = <<>>
    /\ nextCalls' = <<>>
    /\ extractCalls' = 0
    /\ verifyCalls' = <<>>
    /\ log' = <<>>
    /\ raised' = <<>>
    /\ UNCHANGED <<args, handler>>

Next ==
    \/ \E a \in ArgsSet : createVerifyTokenMiddleware(a)
    \/ \E h \in HeadersSet : Receive(h)
    \/ \E nb \in NextBehaviours : verifyToken(nb)
    \/ Finish

Spec == Init /\ [][Next]_vars

\* the same machine, constructed with every subset of message overrides
NextMessages ==
    \/ \E a \in MessagesArgsSet : createVerifyTokenMiddleware(a)
    \/ \E h \in MessagesHeadersSet : Receive(h)
    \/ \E nb \in NextBehaviours : verifyToken(nb)
    \/ Finish

SpecMessages == Init /\ [][NextMessages]_vars

TypeOK ==
    /\ pc \in {"init", "threw", "ready", "request", "handled"}
    /\ Len(handler) <= 1
    /\ Len(resp) <= 1
    /\ extractCalls \in 0..1

(***************************************************************************)
(* Vocabulary of the properties                                            *)
(***************************************************************************)
Handled == pc = "handled"

closure == handler[1]

Bypass == closure.disableTokenVerification

DefaultExtractor == closure.extractToken = "defaultExtractToken"

HasAuthorization == Has(req.headers, "authorization")

authHeader == req.headers["authorization"]

StartsWith(s, prefix) ==
    Len(s) >= Len(prefix) /\ SubSeq(s, 1, Len(prefix)) = prefix

\* position of the first character of s that is in set cs, Len(s) + 1 if none
FirstOf(s, cs) ==
    IF \E n \in 1..Len(s) : s[n] \in cs
    THEN CHOOSE n \in 1..Len(s) : s[n] \in cs /\ \A j \in 1..(n - 1) : s[j] \notin cs
    ELSE Len(s) + 1

Before(s, cs) == SubSeq(s, 1, FirstOf(s, cs) - 1)

After(s, cs) == SubSeq(s, FirstOf(s, cs) + 1, Len(s))

Whitespace == {" ", "\t"}

\* the token is well formed, signed with key, active and not expired
Acceptable(t, key) ==
    /\ Len(t) = 1
    /\ t[1] \in DOMAIN Issued
    /\ Issued[t[1]].alg # "none"
    /\ Issued[t[1]].key = key
    /\ ~Issued[t[1]].notBefore
    /\ ~Issued[t[1]].expired

\* the token is well formed and signed with key, and its expiry has passed
ExpiredOnly(t, key) ==
    /\ Len(t) = 1
    /\ t[1] \in DOMAIN Issued
    /\ Issued[t[1]].alg # "none"
    /\ Issued[t[1]].key = key
    /\ Issued[t[1]].expired

Warned == \E i \in 1..Len(log) : log[i].level = "warn"

BypassTaken == \E i \in 1..Len(log) : log[i].level = "info"

(***************************************************************************)
(* C1                                                                      *)
(***************************************************************************)
\* C1: with bypass false, next is invoked only if jwt.verify accepted the
\* extracted token against the configured secret; then next is invoked
\* exactly once, no response is written, and at the call req[userProperty]
\* holds the decoded payload unmodified.
C1_ProceedOnlyWhenVerified ==
    (Handled /\ ~Bypass /\ nextCalls # <<>>) =>
        /\ extractCalls = 1
        /\ Len(verifyCalls) = 1
        /\ verifyCalls[1].token = extractToken(closure, req).str
        /\ verifyCalls[1].key = args[1].secretKey
        /\ Acceptable(verifyCalls[1].token, args[1].secretKey)
        /\ Len(nextCalls) = 1
        /\ resp = <<>>
        /\ Has(nextCalls[1], closure.userProperty)
        /\ nextCalls[1][closure.userProperty] = Issued[verifyCalls[1].token[1]].payload

C3_FailureClassification ==
    (Handled /\ Len(verifyCalls) = 1
        /\ ~Acceptable(verifyCalls[1].token, closure.secretKey)) =>
        /\ Len(resp) = 1
        /\ closure.messages.expiredToken # closure.messages.invalidToken
        /\ resp[1].body.message =
               IF ExpiredOnly(verifyCalls[1].token, closure.secretKey)
               THEN closure.messages.expiredToken
               ELSE closure.messages.invalidToken

\* a token signed with another secret, and expired, was rejected
C3_Witness ==
    /\ Handled
    /\ Len(verifyCalls) = 1
    /\ verifyCalls[1].token = <<"jwtB">>
    /\ closure.secretKey = "s2"
    /\ Len(resp) = 1
    /\ resp[1].body.message = closure.messages.invalidToken

(***************************************************************************)
(* C4                                                                      *)
(***************************************************************************)
\* C4: as the README states, a missing or malformed token is answered with
\* 401 and an expired or invalid token with 403, each with a message body.
C4_ReadmeStatusCodes ==
    Handled =>
        \A i \in 1..Len(resp) :
            /\ DOMAIN resp[i].body = {"message"}
            /\ resp[i].status = IF verifyCalls = <<>> THEN 401 ELSE 403

(***************************************************************************)
(* C5                                                                      *)
(***************************************************************************)
\* C5: with the default extractor and bypass false, a request without an
\* Authorization header, or whose header does not start with "Bearer ", is
\* answered with 401 and messages.noToken; next and jwt.verify are not
\* called and the identity field is not set.
C5_NoBearerNoToken ==
    (Handled /\ ~Bypass /\ DefaultExtractor
        /\ (~HasAuthorization \/ ~StartsWith(authHeader, Bearer \o <<" ">>))) =>
        /\ resp = <<json(401, closure.messages.noToken)>>
        /\ nextCalls = <<>>
        /\ verifyCalls = <<>>
        /\ req.props = EmptyObj
        /\ raised = <<>>

\* a header with the scheme in lower case, carrying a good token, was refused
C5_Witness ==
    /\ Handled
    /\ ~Bypass
    /\ DefaultExtractor
    /\ HasAuthorization
    /\ authHeader = bearerLower \o <<" ", "jwtA">>
    /\ closure.secretKey = "s1"
    /\ Len(resp) = 1

(***************************************************************************)
(* C6                                                                      *)
(***************************************************************************)
\* C6: the bypass path is taken exactly by the middlewares constructed with
\* disableTokenVerification true, whatever the request; on it next is called
\* once, nothing is written, extractToken and jwt.verify are not called and
\* the identity field stays unset.
C6_BypassFixedAtConstruction ==
    Handled =>
        /\ BypassTaken <=>
               (Has(args[1], "disableTokenVerification")
                   /\ args[1].disableTokenVerification)
        /\ BypassTaken =>
               /\ Len(nextCalls) = 1
               /\ resp = <<>>
               /\ extractCalls = 0
               /\ verifyCalls = <<>>
               /\ req.props = EmptyObj
        /\ ~BypassTaken => extractCalls = 1

\* a request with a good bearer token went through a bypassing middleware
C6_Witness ==
    /\ Handled
    /\ BypassTaken
    /\ HasAuthorization
    /\ authHeader = Bearer \o <<" ", "jwtA">>
    /\ nextCalls = <<EmptyObj>>

(***************************************************************************)
(* C7                                                                      *)
(***************************************************************************)
\* C7: when options is absent, or options.secretKey is missing or empty, the
\* factory throws and returns no handler, so no request is ever processed:
\* no extraction, no verification, no next, no response, no log entry.
C7_ConstructionFailsWithoutSecret ==
    (pc # "init" /\ (args = <<>> \/ ~Has(args[1], "secretKey")
                        \/ args[1].secretKey = "")) =>
        /\ pc = "threw"
        /\ handler = <<>>
        /\ req = NoRequest
        /\ resp = <<>>
        /\ nextCalls = <<>>
        /\ extractCalls = 0
        /\ verifyCalls = <<>>
        /\ log = <<>>

\* the factory was called with an empty secretKey and threw
C7_Witness ==
    /\ pc = "threw"
    /\ args # <<>>
    /\ Has(args[1], "secretKey")
    /\ args[1].secretKey = ""

(***************************************************************************)
(* C8                                                                      *)
(***************************************************************************)
Supplied(k) == Has(args[1], "messages") /\ k \in DOMAIN args[1].messages

Resolved(k) ==
    IF Supplied(k) THEN args[1].messages[k] ELSE defaultMessages[k]

\* C8: each message key supplied in options.messages resolves to the supplied
\* string and each key not supplied to its built-in default, and each
\* rejection carries the resolved value of its own key: noToken without a
\* token, expiredToken or invalidToken after a verification, by the failure.
C8_MessagesMergedPerKey ==
    (pc \in {"ready", "request", "handled"}) =>
        /\ \A k \in MessageKeys : closure.messages[k] = Resolved(k)
        /\ (Handled /\ resp # <<>>) =>
               resp[1].body.message \in
                   IF verifyCalls = <<>> THEN {Resolved("noToken")}
                   ELSE IF Acceptable(verifyCalls[1].token, closure.secretKey)
                   THEN {Resolved("expiredToken"), Resolved("invalidToken")}
                   ELSE IF ExpiredOnly(verifyCalls[1].token, closure.secretKey)
                   THEN {Resolved("expiredToken")}
                   ELSE {Resolved("invalidToken")}

\* only noToken was overridden and an expired token got the default text
C8_Witness ==
    /\ Handled
    /\ Has(args[1], "messages")
    /\ DOMAIN args[1].messages = {"noToken"}
    /\ Len(verifyCalls) = 1
    /\ verifyCalls[1].token = <<"jwtB">>
    /\ resp = <<json(401, defaultMessages.expiredToken)>>

(***************************************************************************)
(* C9                                                                      *)
(***************************************************************************)
\* C9: the default extractor splits the header at its first whitespace into
\* a scheme and a remainder; when the scheme is exactly "Bearer" the token
\* handed to jwt.verify is the whole remainder, and an empty or absent
\* remainder is never passed to jwt.verify.
C9_TokenIsRemainder ==
    (Handled /\ ~Bypass /\ DefaultExtractor /\ HasAuthorization) =>
        IF Before(authHeader, Whitespace) = Bearer
              /\ After(authHeader, Whitespace) # <<>>
        THEN verifyCalls = <<[token |-> After(authHeader, Whitespace),
                              key   |-> closure.secretKey]>>
        ELSE verifyCalls = <<>>

\* C9 (amended): the default extractor splits the header at every space
\* character; when the first segment is exactly "Bearer" the token handed to
\* jwt.verify is the second segment only, the text between the first and the
\* second space, and an empty or absent second segment is answered as no
\* token and never passed to jwt.verify.
C9_TokenIsSecondSegment ==
    (Handled /\ ~Bypass /\ DefaultExtractor /\ HasAuthorization) =>
        LET second == Before(After(authHeader, {" "}), {" "})
        IN  IF Before(authHeader, {" "}) = Bearer /\ second # <<>>
            THEN verifyCalls = <<[token |-> second, key |-> closure.secretKey]>>
            ELSE /\ verifyCalls = <<>>
                 /\ resp = <<json(401, closure.messages.noToken)>>

\* "Bearer jwtA x" was received and jwtA alone was verified
C9_Witness ==
    /\ Handled
    /\ ~Bypass
    /\ DefaultExtractor
    /\ HasAuthorization
    /\ authHeader = Bearer \o <<" ", "jwtA", " ", "x">>
    /\ Len(verifyCalls) = 1
    /\ verifyCalls[1].token = <<"jwtA">>

(***************************************************************************)
(* C10                                                                     *)
(***************************************************************************)
\* C10: no request both has next invoked and a rejection written; a request
\* whose token verified is never answered with a 401 and never logs a
\* warning, also when next itself raises; a rejected request never has its
\* identity field set.
C10_ContinueXorReject ==
    Handled =>
        /\ ~(nextCalls # <<>> /\ resp # <<>>)
        /\ (Len(verifyCalls) = 1
               /\ Acceptable(verifyCalls[1].token, closure.secretKey)) =>
               (resp = <<>> /\ ~Warned)
        /\ resp # <<>> => req.props = EmptyObj

====
